---------------------------- MODULE Spec2Model ----------------------------
(***************************************************************************)
(* Model of the PolicyEngine uprating calculator: the value resolver and   *)
(* the projection loop of src/app.py, and round_value of src/rounding.py.  *)
(*                                                                         *)
(* Numbers.  The projection works on Python floats.  In the projector they *)
(* are modelled as exact rationals <<n, d>> (d > 0, lowest terms): the     *)
(* inputs enumerated below keep every ratio away from the 0.0001 threshold *)
(* by far more than a rounding error, so the branch taken is the one the   *)
(* floating-point code takes.  round_value is modelled on IEEE-754         *)
(* binary64 itself (section "binary64"), because there the rounding of     *)
(* each operation decides the result.                                      *)
(***************************************************************************)
EXTENDS Integers, Sequences, FiniteSets, TLC

VARIABLES
    pc,                              \* position in the "Calculate" handler
    value,                           \* st.number_input "value to be uprated"
    start_year,                      \* st.number_input "start year"
    uprating_parameter,              \* the selected parameter: instant -> value
    years,
    uprated_values,
    uprating_factors,
    used_months,
    last_available_uprating_factor,
    year_values,
    month_used,
    current_value,
    i,                               \* index of the projection loop
    warnings,                        \* st.warning messages, in order
    other_parameter,                 \* parameter of a second, independent run
    second_run,                      \* outputs of that second run
    call,                            \* arguments of a function called on its own
    returned                         \* what it returned, call after call

vars == <<pc, value, start_year, uprating_parameter, years, uprated_values,
          uprating_factors, used_months, last_available_uprating_factor,
          year_values, month_used, current_value, i, warnings,
          other_parameter, second_run, call, returned>>

-----------------------------------------------------------------------------
(* Python's None.  Numbers are pairs, labels are strings, so None is        *)
(* comparable with both kinds of tuple-valued data.                         *)
None == <<>>

(***************************************************************************)
(* Exact rational arithmetic.                                              *)
(***************************************************************************)
Abs(n) == IF n < 0 THEN -n ELSE n

RECURSIVE Gcd(_, _)
Gcd(a, b) == IF b = 0 THEN a ELSE Gcd(b, a % b)

Rat(n, d) ==
    LET s == IF d < 0 THEN -1 ELSE 1
        g == Gcd(Abs(n), Abs(d))
    IN  <<(s * n) \div g, (s * d) \div g>>

Num(n) == <<n, 1>>

RAdd(a, b) == Rat(a[1] * b[2] + b[1] * a[2], a[2] * b[2])
RSub(a, b) == Rat(a[1] * b[2] - b[1] * a[2], a[2] * b[2])
RMul(a, b) ==
    LET g1 == Gcd(Abs(a[1]), b[2])
        g2 == Gcd(Abs(b[1]), a[2])
    IN  Rat((a[1] \div g1) * (b[1] \div g2), (a[2] \div g2) * (b[2] \div g1))
RDiv(a, b) == RMul(a, IF b[1] < 0 THEN <<-b[2], -b[1]>> ELSE <<b[2], b[1]>>)
RAbs(a) == <<Abs(a[1]), a[2]>>
RLess(a, b) == a[1] * b[2] < b[1] * a[2]

Zero == Num(0)
One == Num(1)

-----------------------------------------------------------------------------
(***************************************************************************)
(* The external parameter.  instant("YYYY-MM-01") is the triple            *)
(* <<year, month, 1>>; a parameter is a function from the instants at      *)
(* which it has a value to that value, and yields None elsewhere.          *)
(***************************************************************************)
MONTHS_IN_YEAR == 12

instant(year, month) == <<year, month, 1>>

Call(parameter, inst) ==
    IF inst \in DOMAIN parameter THEN parameter[inst] ELSE None

(* f"{month:02d}" *)
Digits == <<"0", "1", "2", "3", "4", "5", "6", "7", "8", "9">>
TwoDigit(month) == Digits[(month \div 10) + 1] \o Digits[(month % 10) + 1]

Max(S) == CHOOSE m \in S : \A n \in S : n <= m
Min(S) == CHOOSE m \in S : \A n \in S : m <= n

(* dict.get(key, default) *)
Get(dict, key, default) == IF key \in DOMAIN dict THEN dict[key] ELSE default

(* dict[key] = val *)
Put(dict, key, val) ==
    [k \in DOMAIN dict \cup {key} |-> IF k = key THEN val ELSE dict[k]]

EmptyDict == [k \in {} |-> None]

get_all_values_for_year(parameter, year) ==
    LET have == {month \in 1..MONTHS_IN_YEAR :
                    Call(parameter, instant(year, month)) # None}
    IN  [month \in have |-> Call(parameter, instant(year, month))]

HistoricalThrough2025(year) == year <= 2025
HistoricalBoundary(year) == year <= 2024

get_best_value_for_year(parameter, year) ==
    LET monthly_values == get_all_values_for_year(parameter, year)
    IN  IF DOMAIN monthly_values = {}
        THEN <<None, None>>
        ELSE IF HistoricalBoundary(year)
             THEN LET last_month == Max(DOMAIN monthly_values)
                  IN  <<monthly_values[last_month], TwoDigit(last_month)>>
             ELSE LET first_month == Min(DOMAIN monthly_values)
                  IN  <<monthly_values[first_month], TwoDigit(first_month)>>

-----------------------------------------------------------------------------
(***************************************************************************)
(* binary64.  A Python float x >= 0 is <<m, e>>, standing for m * 2^e,     *)
(* with m a natural number of exactly 53 bits (zero is <<0, 0>>).  TLC's   *)
(* integers have 32 bits, so m is a little-endian sequence of 15-bit       *)
(* limbs without leading zero limbs (zero is the empty sequence).  Every   *)
(* operation computes the exact result and rounds it to nearest, ties to   *)
(* even, as the hardware does.  Overflow and subnormals are out of reach   *)
(* of the values used here.                                                *)
(***************************************************************************)
LimbBits == 3 * 5
LimbBase == 2 ^ LimbBits
Precision == 52 + 1

RECURSIVE BNorm(_)
BNorm(a) ==
    IF a = <<>> THEN a
    ELSE IF a[Len(a)] = 0 THEN BNorm(SubSeq(a, 1, Len(a) - 1)) ELSE a

RECURSIVE FromInt(_)
FromInt(n) == IF n = 0 THEN <<>> ELSE <<n % LimbBase>> \o FromInt(n \div LimbBase)

Limb(a, k) == IF k <= Len(a) THEN a[k] ELSE 0

RECURSIVE BAddFrom(_, _, _, _)
BAddFrom(a, b, k, carry) ==
    IF k > Len(a) /\ k > Len(b)
    THEN IF carry = 0 THEN <<>> ELSE <<carry>>
    ELSE LET t == Limb(a, k) + Limb(b, k) + carry
         IN  <<t % LimbBase>> \o BAddFrom(a, b, k + 1, t \div LimbBase)
BAdd(a, b) == BAddFrom(a, b, 1, 0)

RECURSIVE BSubFrom(_, _, _, _)
BSubFrom(a, b, k, borrow) ==
    IF k > Len(a)
    THEN <<>>
    ELSE LET t == a[k] - Limb(b, k) - borrow
         IN  IF t < 0 THEN <<t + LimbBase>> \o BSubFrom(a, b, k + 1, 1)
                      ELSE <<t>> \o BSubFrom(a, b, k + 1, 0)
BSub(a, b) == BNorm(BSubFrom(a, b, 1, 0))               \* a >= b

RECURSIVE BCmpFrom(_, _, _)
BCmpFrom(a, b, k) ==
    IF k = 0 THEN 0
    ELSE IF a[k] < b[k] THEN -1
    ELSE IF a[k] > b[k] THEN 1
    ELSE BCmpFrom(a, b, k - 1)
BCmp(a, b) ==
    IF Len(a) < Len(b) THEN -1
    ELSE IF Len(a) > Len(b) THEN 1
    ELSE BCmpFrom(a, b, Len(a))

RECURSIVE BMulSmallFrom(_, _, _, _)
BMulSmallFrom(a, n, k, carry) ==
    IF k > Len(a)
    THEN IF carry = 0 THEN <<>> ELSE <<carry>>
    ELSE LET t == a[k] * n + carry
         IN  <<t % LimbBase>> \o BMulSmallFrom(a, n, k + 1, t \div LimbBase)
BMulSmall(a, n) == IF n = 0 THEN <<>> ELSE BMulSmallFrom(a, n, 1, 0)

ShiftLimb(a) == IF a = <<>> THEN a ELSE <<0>> \o a

RECURSIVE BMulFrom(_, _, _)
BMulFrom(a, b, k) ==
    IF k > Len(b)
    THEN <<>>
    ELSE BAdd(BMulSmall(a, b[k]), ShiftLimb(BMulFrom(a, b, k + 1)))
BMul(a, b) == BMulFrom(a, b, 1)

RECURSIVE ShiftLimbs(_, _)
ShiftLimbs(a, n) == IF n = 0 THEN a ELSE ShiftLimbs(ShiftLimb(a), n - 1)

(* a * 2^bits and floor(a / 2^bits) *)
BShl(a, bits) == ShiftLimbs(BMulSmall(a, 2 ^ (bits % LimbBits)), bits \div LimbBits)
BShr(a, bits) ==
    LET drop == bits \div LimbBits
        r == bits % LimbBits
        rest == IF drop >= Len(a) THEN <<>> ELSE SubSeq(a, drop + 1, Len(a))
    IN  BNorm([k \in 1..Len(rest) |->
                  (rest[k] \div (2 ^ r))
                      + (Limb(rest, k + 1) % (2 ^ r)) * (2 ^ (LimbBits - r))])

RECURSIVE BitLenSmall(_)
BitLenSmall(n) == IF n = 0 THEN 0 ELSE 1 + BitLenSmall(n \div 2)
BBitLen(a) ==
    IF a = <<>> THEN 0 ELSE LimbBits * (Len(a) - 1) + BitLenSmall(a[Len(a)])

BBit(a, j) == (Limb(a, (j \div LimbBits) + 1) \div (2 ^ (j % LimbBits))) % 2
BLowZero(a, bits) == BShl(BShr(a, bits), bits) = a  \* a is a multiple of 2^bits
BOne == <<1>>

(* <<quotient, remainder>> of a by b > 0: long division in base 2, the     *)
(* bits of a taken from the top, limb by limb.                             *)
BDivBit(qr, b, bit) ==
    LET r2 == BAdd(BAdd(qr[2], qr[2]), IF bit = 1 THEN BOne ELSE <<>>)
        q2 == BAdd(qr[1], qr[1])
    IN  IF BCmp(r2, b) >= 0 THEN <<BAdd(q2, BOne), BSub(r2, b)>> ELSE <<q2, r2>>

BDivLimb(qr, b, limb) ==
    LET bits[k \in 0..LimbBits, at \in Seq(Seq(Nat))] ==
            IF k = 0
            THEN at
            ELSE bits[k - 1, BDivBit(at, b, (limb \div (2 ^ (k - 1))) % 2)]
    IN  bits[LimbBits, qr]

BDivMod(a, b) ==
    LET limbs[n \in 0..Len(a), at \in Seq(Seq(Nat))] ==
            IF n = 0 THEN at ELSE limbs[n - 1, BDivLimb(at, b, a[n])]
    IN  limbs[Len(a), <<<<>>, <<>>>>]

FZero == <<<<>>, 0>>

(* The float nearest to t * 2^e (plus, when sticky, a positive amount      *)
(* below one unit of t), ties to even.  With sticky, t has over 54 bits.   *)
RoundBits(t, e, sticky) ==
    LET len == BBitLen(t)
        d == len - Precision
        kept == BShr(t, d)
        half == BBit(t, d - 1) = 1
        rest == sticky \/ ~BLowZero(t, d - 1)
        up == half /\ (rest \/ BBit(kept, 0) = 1)
        m == IF up THEN BAdd(kept, BOne) ELSE kept
    IN  IF t = <<>> THEN FZero
        ELSE IF d <= 0 THEN <<BShl(t, -d), e + d>>
        ELSE IF BBitLen(m) > Precision THEN <<BShr(m, 1), e + d + 1>>
        ELSE <<m, e + d>>

(* float(p / q) for a decimal literal p/q: the nearest float *)
FromRatio(p, q) ==
    LET shift == Precision + 2 + BitLenSmall(q)
        qr == BDivMod(BShl(FromInt(p), shift), FromInt(q))
    IN  RoundBits(qr[1], -shift, qr[2] # <<>>)

(* x / y *)
FDivide(x, y) ==
    LET qr == BDivMod(BShl(x[1], Precision + 2), y[1])
    IN  IF x[1] = <<>> THEN FZero
        ELSE RoundBits(qr[1], x[2] - y[2] - (Precision + 2), qr[2] # <<>>)

(* n * y for an integer n (an int, or an integer-valued float)             *)
FTimes(n, y) == RoundBits(BMul(n, y[1]), y[2], FALSE)

(* The integer part of x and whether x is an integer. *)
Floor(x) == IF x[2] >= 0 THEN BShl(x[1], x[2]) ELSE BShr(x[1], -x[2])
Integral(x) == x[2] >= 0 \/ BLowZero(x[1], -x[2])

(* numpy.floor, numpy.ceil *)
np_floor(x) == Floor(x)
np_ceil(x) == IF Integral(x) THEN Floor(x) ELSE BAdd(Floor(x), BOne)

(* Python 3 round(x): to the nearest integer, halves to the even one *)
round(x) ==
    LET half == x[2] < 0 /\ BBit(x[1], -x[2] - 1) = 1
        rest == x[2] < 0 /\ ~BLowZero(x[1], -x[2] - 1)
        up == half /\ (rest \/ BBit(Floor(x), 0) = 1)
    IN  IF up THEN BAdd(Floor(x), BOne) ELSE Floor(x)

(* src/rounding.py, lines 6-38 *)
round_value(x, rounding_base, rounding_method) ==
    IF rounding_base = FZero
    THEN x
    ELSE CASE rounding_method = "nearest" ->
                FTimes(round(FDivide(x, rounding_base)), rounding_base)
           [] rounding_method = "upwards" ->
                FTimes(np_ceil(FDivide(x, rounding_base)), rounding_base)
           [] rounding_method = "downwards" ->
                FTimes(np_floor(FDivide(x, rounding_base)), rounding_base)
           [] OTHER -> x

-----------------------------------------------------------------------------
(***************************************************************************)
(* The "Calculate Uprated Values" handler (src/app.py, lines 114-205).     *)
(* Its local variables are the model's variables; Locals gathers them so   *)
(* that each piece of the handler is an operator from locals to locals,    *)
(* used by the actions of a run and by those of a second run.              *)
(***************************************************************************)
projection_years == 20
max_year == 2035

Threshold == <<1, 10000>>                       \* the literal 0.0001

Range(a, b) == [k \in 1..(b - a) |-> a + k - 1]  \* list(range(a, b))

Locals ==
    [years |-> years, uprated_values |-> uprated_values,
     uprating_factors |-> uprating_factors, used_months |-> used_months,
     last_available_uprating_factor |-> last_available_uprating_factor,
     year_values |-> year_values, month_used |-> month_used,
     current_value |-> current_value, warnings |-> warnings]

(* lines 124-136: the lists and dictionaries as first assigned *)
Fresh(start) ==
    [years |-> Range(start, start + projection_years + 1),
     uprated_values |-> <<>>, uprating_factors |-> <<>>, used_months |-> <<>>,
     last_available_uprating_factor |-> None,
     year_values |-> EmptyDict, month_used |-> EmptyDict,
     current_value |-> None, warnings |-> <<>>]

(* lines 138-145: one pass of the loop that fills year_values, month_used *)
ResolveOne(s, parameter, year) ==
    IF year > 2035
    THEN s
    ELSE LET best == get_best_value_for_year(parameter, year)
         IN  IF best[1] # None
             THEN [s EXCEPT !.year_values = Put(@, year, best[1]),
                            !.month_used = Put(@, year, best[2])]
             ELSE s

RECURSIVE ResolveFrom(_, _, _, _)
ResolveFrom(s, parameter, year, stop) ==
    IF year >= stop
    THEN s
    ELSE ResolveFrom(ResolveOne(s, parameter, year), parameter, year + 1, stop)

ResolveAll(s, parameter, start) ==
    ResolveFrom(s, parameter, start - 1, start + projection_years + 1)

(* lines 160 and 187: current_value *= (1 + factor) *)
GrowByFactorAlone(cv, factor) == RMul(cv, factor)
Grow(cv, factor) == RMul(cv, RAdd(One, factor))

(* lines 147-153 *)
FirstYearUprated(s, initial, start) ==
    LET both == start \in DOMAIN s.year_values /\ (start - 1) \in DOMAIN s.year_values
        factor == IF both
                  THEN RSub(RDiv(s.year_values[start], s.year_values[start - 1]), One)
                  ELSE Zero
    IN  [s EXCEPT !.uprated_values = Append(@, Grow(initial, factor)),
                  !.uprating_factors = Append(@, factor),
                  !.used_months = Append(@, Get(s.month_used, start, "N/A")),
                  !.current_value = Grow(initial, factor)]
FirstYearLabelsPrevious(s, initial, start) ==
    [s EXCEPT !.uprated_values = Append(@, initial),
              !.uprating_factors = Append(@, Zero),
              !.used_months = Append(@, Get(s.month_used, start - 1, "N/A")),
              !.current_value = initial]
FirstYear(s, initial, start) ==
    [s EXCEPT !.uprated_values = Append(@, initial),
              !.uprating_factors = Append(@, Zero),
              !.used_months = Append(@, Get(s.month_used, start, "N/A")),
              !.current_value = initial]

(* The branch the loop body takes for list index k (Python's i = k).       *)
YearAt(s, k) == s.years[k + 1]                  \* years[i]
PrevYearAt(s, k) == s.years[k]                  \* years[i-1]

BeyondData(year) == year > 2035
HasBoth(s, k) ==
    YearAt(s, k) \in DOMAIN s.year_values /\ PrevYearAt(s, k) \in DOMAIN s.year_values

(* lines 158-169 *)
BeyondIfFactorTruthy(s) ==
    IF s.last_available_uprating_factor # None /\ s.last_available_uprating_factor # Zero
    THEN LET cv == Grow(s.current_value, s.last_available_uprating_factor)
         IN  [s EXCEPT !.current_value = cv,
                       !.uprated_values = Append(@, cv),
                       !.uprating_factors = Append(@, s.last_available_uprating_factor),
                       !.used_months = Append(@, "Projected")]
    ELSE [s EXCEPT !.uprated_values = Append(@, s.current_value),
                   !.uprating_factors = Append(@, Zero),
                   !.used_months = Append(@, "No projection data")]
Beyond(s) ==
    IF s.last_available_uprating_factor # None
    THEN LET cv == Grow(s.current_value, s.last_available_uprating_factor)
         IN  [s EXCEPT !.current_value = cv,
                       !.uprated_values = Append(@, cv),
                       !.uprating_factors = Append(@, s.last_available_uprating_factor),
                       !.used_months = Append(@, "Projected")]
    ELSE [s EXCEPT !.uprated_values = Append(@, s.current_value),
                   !.uprating_factors = Append(@, Zero),
                   !.used_months = Append(@, "No projection data")]

(* line 176 *)
SuspiciousAlways(factor, year) == RLess(RAbs(factor), Threshold)
Suspicious(factor, year) == RLess(RAbs(factor), Threshold) /\ year >= 2025

(* line 181: the February value replaces the resolved one *)
FebruaryDiffers(s, parameter, year) ==
    LET feb_value == Call(parameter, instant(year, 2))
    IN  feb_value # None /\ feb_value # s.year_values[year]

Corrects(s, parameter, k) ==
    LET year == YearAt(s, k)
        factor == RSub(RDiv(s.year_values[year], s.year_values[PrevYearAt(s, k)]), One)
    IN  Suspicious(factor, year) /\ FebruaryDiffers(s, parameter, year)

(* line 184: year_values[year] = feb_value *)
KeepResolved(dict, year, feb_value) == dict
StoreFebruary(dict, year, feb_value) == Put(dict, year, feb_value)

(* line 193 *)
CapturedAtAnyYear(year) == TRUE
CapturedAt(year) == year = 2035

(* lines 172-194 *)
Uprate(s, parameter, k) ==
    LET year == YearAt(s, k)
        prev_year == PrevYearAt(s, k)
        first == RSub(RDiv(s.year_values[year], s.year_values[prev_year]), One)
        fix == Suspicious(first, year) /\ FebruaryDiffers(s, parameter, year)
        feb_value == Call(parameter, instant(year, 2))
        uprating_factor ==
            IF fix THEN RSub(RDiv(feb_value, s.year_values[prev_year]), One)
                   ELSE first
        yv == IF fix THEN StoreFebruary(s.year_values, year, feb_value)
                     ELSE s.year_values
        mu == IF fix THEN Put(s.month_used, year, "02") ELSE s.month_used
        cv == Grow(s.current_value, uprating_factor)
    IN  [s EXCEPT !.year_values = yv,
                  !.month_used = mu,
                  !.current_value = cv,
                  !.uprated_values = Append(@, cv),
                  !.uprating_factors = Append(@, uprating_factor),
                  !.used_months = Append(@, Get(mu, year, "N/A")),
                  !.last_available_uprating_factor =
                      IF CapturedAt(year) THEN uprating_factor ELSE @]

(* "No data available for {year}" *)
Warning(year) == <<"No data available for", year>>

(* lines 196-205 *)
MissingResetsValue(s, k) ==
    LET year == YearAt(s, k)
        prev_year == PrevYearAt(s, k)
        w1 == IF year \notin DOMAIN s.year_values
              THEN Append(s.warnings, Warning(year)) ELSE s.warnings
        w2 == IF prev_year \notin DOMAIN s.year_values
              THEN Append(w1, Warning(prev_year)) ELSE w1
    IN  [s EXCEPT !.warnings = w2,
                  !.uprated_values = Append(@, s.uprated_values[1]),
                  !.uprating_factors = Append(@, Zero),
                  !.used_months = Append(@, "Missing data")]
Missing(s, k) ==
    LET year == YearAt(s, k)
        prev_year == PrevYearAt(s, k)
        w1 == IF year \notin DOMAIN s.year_values
              THEN Append(s.warnings, Warning(year)) ELSE s.warnings
        w2 == IF prev_year \notin DOMAIN s.year_values
              THEN Append(w1, Warning(prev_year)) ELSE w1
    IN  [s EXCEPT !.warnings = w2,
                  !.uprated_values = Append(@, s.current_value),
                  !.uprating_factors = Append(@, Zero),
                  !.used_months = Append(@, "Missing data")]

(* lines 154-205: the body of the projection loop for index k *)
Iteration(s, parameter, k) ==
    IF BeyondData(YearAt(s, k)) THEN Beyond(s)
    ELSE IF HasBoth(s, k) THEN Uprate(s, parameter, k)
    ELSE Missing(s, k)

(* What a run shows: the three lists behind the table, and the warnings. *)
Outputs(s) ==
    [uprated_values |-> s.uprated_values, uprating_factors |-> s.uprating_factors,
     used_months |-> s.used_months, warnings |-> s.warnings]
-----------------------------------------------------------------------------
(***************************************************************************)
(* Inputs.  A parameter is built from one monthly profile per year around  *)
(* the start year; every other year has no data.  The values 300, 310 and  *)
(* 315.5 are those of the end-to-end scenario; 300.01 is within 0.0001 of  *)
(* 300 in ratio without being equal to it.  From start year 2033 on the    *)
(* factor captured at 2035 is compounded up to 20 times, so there the      *)
(* values are 150 and 300: every power of their ratios stays within TLC's  *)
(* 32-bit integers.                                                        *)
(***************************************************************************)
InitialValues == {Num(0), Num(1000)}
StartYears == {2023, 2024, 2033, 2034, 2035}

NoData == [m \in {} |-> None]
Jan(v) == [m \in {1} |-> v]
JanFeb(v, w) == [m \in {1, 2} |-> IF m = 1 THEN v ELSE w]
FebSep(v, w) == [m \in {2, 9} |-> IF m = 2 THEN v ELSE w]
MarSep(v, w) == [m \in {3, 9} |-> IF m = 3 THEN v ELSE w]

WindowProfiles ==
    {NoData, Jan(Num(300)), Jan(Num(310)), Jan(Rat(631, 2)),
     JanFeb(Num(300), Num(310)), JanFeb(Rat(30001, 100), Rat(631, 2)),
     JanFeb(Num(310), Num(310)), FebSep(Num(310), Num(300)),
     MarSep(Num(300), Num(310))}
CeilingProfiles ==
    {NoData, Jan(Num(300)), Jan(Num(150)), JanFeb(Num(300), Num(150)),
     MarSep(Num(150), Num(300))}
PreviousProfiles == {NoData, Jan(Num(300)), MarSep(Num(150), Num(300))}

WindowYears(start) == {y \in (start - 1)..(start + 2) : y <= max_year}

Menu(start, year) ==
    IF year = start - 1 /\ start < max_year THEN PreviousProfiles
    ELSE IF start >= 2033 THEN CeilingProfiles
    ELSE WindowProfiles

AllProfiles == WindowProfiles \cup CeilingProfiles \cup PreviousProfiles

(* The parameter whose year y has the monthly values profile[y]. *)
ParameterOf(profile) ==
    LET insts == UNION {{instant(y, m) : m \in DOMAIN profile[y]} : y \in DOMAIN profile}
    IN  [inst \in insts |-> profile[inst[1]][inst[2]]]

Parameters(start) ==
    {ParameterOf(profile) :
        profile \in {q \in [WindowYears(start) -> AllProfiles] :
                        \A y \in WindowYears(start) : q[y] \in Menu(start, y)}}

-----------------------------------------------------------------------------
(***************************************************************************)
(* The state machine of one run.                                           *)
(***************************************************************************)
Assign(s) ==
    /\ years' = s.years
    /\ uprated_values' = s.uprated_values
    /\ uprating_factors' = s.uprating_factors
    /\ used_months' = s.used_months
    /\ last_available_uprating_factor' = s.last_available_uprating_factor
    /\ year_values' = s.year_values
    /\ month_used' = s.month_used
    /\ current_value' = s.current_value
    /\ warnings' = s.warnings

Inputs == <<value, start_year, uprating_parameter, other_parameter, call>>

Init ==
    /\ pc = "input"
    /\ value \in InitialValues
    /\ start_year \in StartYears
    /\ uprating_parameter \in Parameters(start_year)
    /\ years = <<>>
    /\ uprated_values = <<>>
    /\ uprating_factors = <<>>
    /\ used_months = <<>>
    /\ last_available_uprating_factor = None
    /\ year_values = EmptyDict
    /\ month_used = EmptyDict
    /\ current_value = None
    /\ i = 0
    /\ warnings = <<>>
    /\ other_parameter = None
    /\ second_run = None
    /\ call = None
    /\ returned = <<>>

(* The button is pressed: lines 114-145, up to the filled dictionaries. *)
Calculate ==
    /\ pc = "input"
    /\ Assign(ResolveAll(Fresh(start_year), uprating_parameter, start_year))
    /\ pc' = "first"
    /\ UNCHANGED <<Inputs, i, second_run, returned>>

(* lines 147-153 *)
Baseline ==
    /\ pc = "first"
    /\ Assign(FirstYear(Locals, value, start_year))
    /\ i' = 1
    /\ pc' = "loop"
    /\ UNCHANGED <<Inputs, second_run, returned>>

Advance ==
    /\ i' = i + 1
    /\ pc' = IF i = projection_years THEN "done" ELSE "loop"
    /\ UNCHANGED <<Inputs, second_run, returned>>

(* lines 158-163 *)
ProjectBeyond ==
    /\ pc = "loop"
    /\ BeyondData(YearAt(Locals, i))
    /\ last_available_uprating_factor # None
    /\ Assign(Iteration(Locals, uprating_parameter, i))
    /\ Advance

(* lines 164-169 *)
HoldBeyond ==
    /\ pc = "loop"
    /\ BeyondData(YearAt(Locals, i))
    /\ last_available_uprating_factor = None
    /\ Assign(Iteration(Locals, uprating_parameter, i))
    /\ Advance

(* lines 172-194, the February value not taken *)
UprateResolved ==
    /\ pc = "loop"
    /\ ~BeyondData(YearAt(Locals, i))
    /\ HasBoth(Locals, i)
    /\ ~Corrects(Locals, uprating_parameter, i)
    /\ Assign(Iteration(Locals, uprating_parameter, i))
    /\ Advance

(* lines 172-194, the February value taken (lines 182-185) *)
UprateFebruary ==
    /\ pc = "loop"
    /\ ~BeyondData(YearAt(Locals, i))
    /\ HasBoth(Locals, i)
    /\ Corrects(Locals, uprating_parameter, i)
    /\ Assign(Iteration(Locals, uprating_parameter, i))
    /\ Advance

(* lines 195-205 *)
MissingData ==
    /\ pc = "loop"
    /\ ~BeyondData(YearAt(Locals, i))
    /\ ~HasBoth(Locals, i)
    /\ Assign(Iteration(Locals, uprating_parameter, i))
    /\ Advance

Next ==
    \/ Calculate
    \/ Baseline
    \/ ProjectBeyond
    \/ HoldBeyond
    \/ UprateResolved
    \/ UprateFebruary
    \/ MissingData

Spec == Init /\ [][Next]_vars
-----------------------------------------------------------------------------
(***************************************************************************)
(* Two runs.  The button is pressed a second time with a parameter that    *)
(* differs from the first only in the year before the start year.  Every   *)
(* run computes from scratch: second_run holds the locals of the second.   *)
(***************************************************************************)
Profiles(start) ==
    {q \in [WindowYears(start) -> AllProfiles] :
        \A y \in WindowYears(start) : q[y] \in Menu(start, y)}

InitPair ==
    /\ pc = "input"
    /\ value = Num(1000)
    /\ start_year \in StartYears
    /\ \E profile \in Profiles(start_year) :
          \E before \in Menu(start_year, start_year - 1) \ {profile[start_year - 1]} :
              /\ uprating_parameter = ParameterOf(profile)
              /\ other_parameter =
                    ParameterOf([profile EXCEPT ![start_year - 1] = before])
    /\ years = <<>>
    /\ uprated_values = <<>>
    /\ uprating_factors = <<>>
    /\ used_months = <<>>
    /\ last_available_uprating_factor = None
    /\ year_values = EmptyDict
    /\ month_used = EmptyDict
    /\ current_value = None
    /\ i = 0
    /\ warnings = <<>>
    /\ second_run = None
    /\ call = None
    /\ returned = <<>>

FirstRun == <<pc, Inputs, years, uprated_values, uprating_factors, used_months,
              last_available_uprating_factor, year_values, month_used,
              current_value, i, warnings, returned>>

(* lines 114-153 of the second run *)
CalculateAgain ==
    /\ pc = "done"
    /\ second_run = None
    /\ second_run' = FirstYear(ResolveAll(Fresh(start_year), other_parameter, start_year),
                               value, start_year)
    /\ UNCHANGED FirstRun

(* lines 154-205 of the second run: one pass of its loop *)
ContinueAgain ==
    /\ second_run # None
    /\ Len(second_run.uprated_values) <= projection_years
    /\ second_run' = Iteration(second_run, other_parameter,
                               Len(second_run.uprated_values))
    /\ UNCHANGED FirstRun

NextPair == Next \/ CalculateAgain \/ ContinueAgain

SpecPair == InitPair /\ [][NextPair]_vars

-----------------------------------------------------------------------------
(***************************************************************************)
(* The resolver called on its own, for a year on either side of the        *)
(* 2024/2025 boundary and a parameter with data in any set of months of    *)
(* that year; the value of a month is told apart from every other month's. *)
(***************************************************************************)
ResolverYears == {2023, 2024, 2025, 2026}
MonthValue(month) == Rat(3000 + month, 10)

Idle ==
    /\ pc = "call"
    /\ value = None
    /\ start_year = None
    /\ uprating_parameter = None
    /\ other_parameter = None
    /\ years = <<>>
    /\ uprated_values = <<>>
    /\ uprating_factors = <<>>
    /\ used_months = <<>>
    /\ last_available_uprating_factor = None
    /\ year_values = EmptyDict
    /\ month_used = EmptyDict
    /\ current_value = None
    /\ i = 0
    /\ warnings = <<>>
    /\ second_run = None
    /\ returned = <<>>

Handler == <<pc, value, start_year, uprating_parameter, other_parameter, years,
             uprated_values, uprating_factors, used_months,
             last_available_uprating_factor, year_values, month_used,
             current_value, i, warnings, second_run>>

InitResolver ==
    /\ Idle
    /\ \E year \in ResolverYears, months \in SUBSET (1..MONTHS_IN_YEAR) :
          call = [parameter |-> [inst \in {instant(year, m) : m \in months}
                                    |-> MonthValue(inst[2])],
                  year |-> year]

Resolve ==
    /\ returned = <<>>
    /\ returned' = <<get_best_value_for_year(call.parameter, call.year)>>
    /\ UNCHANGED <<Handler, call>>

SpecResolver == InitResolver /\ [][Resolve]_vars

-----------------------------------------------------------------------------
(***************************************************************************)
(* round_value called on its own and then on its own result.  The value is *)
(* the float of a decimal with two places, the base the float of a decimal *)
(* the form accepts (min 0.01) or the 0 that means no rounding.            *)
(***************************************************************************)
MaxCents == 60
Values == {FromRatio(c, 100) : c \in 0..MaxCents} \cup {FromRatio(103333, 100)}
Bases == {FZero, FromRatio(1, 100), FromRatio(5, 100), FromRatio(1, 10),
          FromRatio(1, 4), FromRatio(1, 1), FromRatio(10, 1)}
Methods == {"nearest", "upwards", "downwards"}

InitRounding ==
    /\ Idle
    /\ call \in [value : Values, rounding_base : Bases, rounding_method : Methods]

Round ==
    /\ Len(returned) < 2
    /\ returned' = Append(returned,
                          round_value(IF returned = <<>> THEN call.value ELSE returned[1],
                                      call.rounding_base, call.rounding_method))
    /\ UNCHANGED <<Handler, call>>

SpecRounding == InitRounding /\ [][Round]_vars

-----------------------------------------------------------------------------
(***************************************************************************)
(* Properties of a run.  A record of the series is a position k of the     *)
(* three lists; Position(y) is the position of year y.                     *)
(***************************************************************************)
Length == Len(uprated_values)
Position(year) == year - start_year + 1
Recorded(year) == Position(year) \in 1..Length
Raw(year) == uprated_values[Position(year)]
Factor(year) == uprating_factors[Position(year)]
Label(year) == used_months[Position(year)]
SeriesYears == {years[k] : k \in 1..Length}

(* What the resolver returns for a year of the selected parameter. *)
Resolved(year) == get_best_value_for_year(uprating_parameter, year)
HasResolved(year) == year <= 2035 /\ Resolved(year)[1] # None
February(year) == Call(uprating_parameter, instant(year, 2))

(* The data of the end-to-end scenario: 2023 -> 300, 2024 -> 310,          *)
(* 2025 -> 315.5, each from a single month, and no other year resolved,    *)
(* with initial value 1000 and the given start year.                       *)
Scenario(start) ==
    /\ value = Num(1000)
    /\ start_year = start
    /\ \A y \in 2022..2035 :
          Resolved(y)[1] = CASE y = 2023 -> Num(300)
                             [] y = 2024 -> Num(310)
                             [] y = 2025 -> Rat(631, 2)
                             [] OTHER -> None
    /\ \A y \in 2023..2025 :
          Cardinality(DOMAIN get_all_values_for_year(uprating_parameter, y)) = 1

(* The three records the scenario is said to yield. *)
ScenarioHead ==
    /\ uprated_values[1] = Num(1000)
    /\ uprated_values[2] = RMul(Num(1000), RDiv(Num(310), Num(300)))
    /\ uprated_values[3] = RMul(RMul(Num(1000), RDiv(Num(310), Num(300))),
                                RDiv(Rat(631, 2), Num(310)))
    /\ uprating_factors[1] = Zero
    /\ uprating_factors[2] = RSub(RDiv(Num(310), Num(300)), One)
    /\ uprating_factors[3] = RSub(RDiv(Rat(631, 2), Num(310)), One)

(* From position k on, the series repeats the raw value of position k - 1  *)
(* with factor 0: "Missing data" through 2035, "No projection data" after. *)
FlatFrom(k) ==
    \A j \in k..Length :
        /\ uprated_values[j] = uprated_values[k - 1]
        /\ uprating_factors[j] = Zero
        /\ used_months[j] = IF years[j] <= 2035 THEN "Missing data"
                                                ELSE "No projection data"

C2_Baseline ==
    Length >= 1 =>
        /\ uprating_factors[1] = Zero
        /\ uprated_values[1] = value
        /\ years[1] = start_year
        /\ used_months[1] = IF HasResolved(start_year)
                            THEN Resolved(start_year)[2] ELSE "N/A"

C2_Witness ==
    /\ pc = "done"
    /\ value # Zero
    /\ HasResolved(start_year) /\ HasResolved(start_year - 1)
    /\ Resolved(start_year)[1] # Resolved(start_year - 1)[1]

(* A series year without a resolved value whose previous year has one.     *)
Gap(year) == year \notin DOMAIN year_values /\ (year - 1) \in DOMAIN year_values

(* C3, as stated: every year Y of the series without a resolved value and  *)
(* with one for Y-1 repeats the previous raw value, with factor 0 and      *)
(* label "Missing data".                                                   *)
C3_EveryGapYear ==
    \A y \in SeriesYears :
        (pc # "input" /\ Gap(y)) =>
            /\ Label(y) = "Missing data"
            /\ Factor(y) = Zero
            /\ Recorded(y - 1) => Raw(y) = Raw(y - 1)

(* C3, amended: every year Y of the series after the first and not beyond  *)
(* 2035, without a resolved value and with one for Y-1, repeats the raw    *)
(* value of Y-1, with factor 0 and label "Missing data".                   *)
C3_MissingDataPropagation ==
    \A y \in SeriesYears :
        (y > start_year /\ y <= 2035 /\ Gap(y)) =>
            /\ Label(y) = "Missing data"
            /\ Factor(y) = Zero
            /\ Raw(y) = Raw(y - 1)

C3_Witness ==
    \E y \in SeriesYears :
        /\ y > start_year /\ y <= 2035 /\ Gap(y)
        /\ Raw(y) # value
        /\ value # Zero

(* C4: a year beyond 2035 multiplies the previous raw value by 1 + f and   *)
(* is labelled "Projected" when a factor f was captured at 2035, f being   *)
(* the factor of the 2035 record; otherwise it repeats the previous raw    *)
(* value with factor 0 and label "No projection data".                     *)
C4_CeilingExtrapolation ==
    \A y \in SeriesYears :
        y > 2035 =>
            IF last_available_uprating_factor # None
            THEN /\ Recorded(2035) /\ Position(2035) > 1
                 /\ last_available_uprating_factor = Factor(2035)
                 /\ Raw(y) = RMul(Raw(y - 1), RAdd(One, Factor(2035)))
                 /\ Factor(y) = Factor(2035)
                 /\ Label(y) = "Projected"
            ELSE /\ Raw(y) = Raw(y - 1)
                 /\ Factor(y) = Zero
                 /\ Label(y) = "No projection data"

C4_Witness ==
    /\ Recorded(2036)
    /\ Label(2036) = "Projected"
    /\ Factor(2035) # Zero
    /\ Raw(2036) = RMul(Raw(2035), RAdd(One, Factor(2035)))
    /\ Raw(2036) # Raw(2035)
(* C5: in a step that uprates year y from resolved values of y and y-1,    *)
(* the February value of y replaces the resolved one (factor               *)
(* feb/value[y-1] - 1, stored value feb, stored month "02") exactly when   *)
(* |value[y]/value[y-1] - 1| < 0.0001, y >= 2025, the parameter has a      *)
(* value at February 1st of y and it differs from value[y]; otherwise the  *)
(* factor is value[y]/value[y-1] - 1 and the stored value and month stay.  *)
C5_NearZeroCorrection ==
    [][(pc = "loop" /\ years[i + 1] <= 2035
          /\ years[i + 1] \in DOMAIN year_values
          /\ (years[i + 1] - 1) \in DOMAIN year_values) =>
        LET y == years[i + 1]
            ratio == RSub(RDiv(year_values[y], year_values[y - 1]), One)
            feb == February(y)
            triggered == /\ RLess(RAbs(ratio), Threshold)
                         /\ y >= 2025
                         /\ feb # None
                         /\ feb # year_values[y]
        IN  /\ Len(uprating_factors') = i + 1
            /\ IF triggered
               THEN /\ uprating_factors'[i + 1] = RSub(RDiv(feb, year_values[y - 1]), One)
                    /\ year_values' = [year_values EXCEPT ![y] = feb]
                    /\ month_used' = [month_used EXCEPT ![y] = "02"]
                    /\ used_months'[i + 1] = "02"
               ELSE /\ uprating_factors'[i + 1] = ratio
                    /\ year_values' = year_values
                    /\ month_used' = month_used]_vars

C5_Witness ==
    \E y \in SeriesYears :
        /\ y > start_year
        /\ Label(y) = "02"
        /\ Resolved(y)[2] = "01"
        /\ year_values[y] = February(y)
        /\ year_values[y] # Resolved(y)[1]
        /\ Factor(y) # Zero

(* The February correction was applied at year y of the series: y is a     *)
(* later year of the series, from 2025 on, y and y-1 are resolved, the     *)
(* ratio of the resolved value of y to the stored value of y-1 is within   *)
(* 0.0001 of 1, and February of y has another value than the one resolved. *)
CorrectedAt(y) ==
    /\ y > start_year /\ y >= 2025 /\ y <= 2035
    /\ Recorded(y)
    /\ HasResolved(y) /\ (y - 1) \in DOMAIN year_values
    /\ February(y) # None /\ February(y) # Resolved(y)[1]
    /\ RLess(RAbs(RSub(RDiv(Resolved(y)[1], year_values[y - 1]), One)), Threshold)

(* C8: after a correction at y, the factor of y+1 (resolved, at most 2035) *)
(* is value[y+1] / feb_value[y] - 1; and no step changes the factor or raw *)
(* value of a record already in the series.                                *)
C8_FebruaryPropagation ==
    /\ [](\A y \in SeriesYears :
            (CorrectedAt(y) /\ Recorded(y + 1) /\ y + 1 <= 2035
                /\ (y + 1) \in DOMAIN year_values) =>
                Factor(y + 1) = RSub(RDiv(year_values[y + 1], February(y)), One))
    /\ [][\A k \in 1..Length :
            /\ uprated_values'[k] = uprated_values[k]
            /\ uprating_factors'[k] = uprating_factors[k]]_vars

C8_Witness ==
    \E y \in SeriesYears :
        /\ CorrectedAt(y) /\ Recorded(y + 1) /\ y + 1 <= 2035
        /\ (y + 1) \in DOMAIN year_values
        /\ Factor(y + 1) = RSub(RDiv(year_values[y + 1], February(y)), One)
        /\ Factor(y + 1) # RSub(RDiv(year_values[y + 1], Resolved(y)[1]), One)

(* 2035 is uprated from resolved values: it is not the first year of the   *)
(* series and both 2034 and 2035 are resolved.                             *)
Computed2035 == start_year < 2035 /\ HasResolved(2034) /\ HasResolved(2035)

(* C9: the factor for the years beyond 2035 is recorded exactly when 2035  *)
(* has been processed as such a year; when it is not one (start_year =     *)
(* 2035, or 2034 or 2035 unresolved) every record beyond 2035 has factor   *)
(* 0, label "No projection data" and the raw value of the 2035 record.     *)
C9_LastFactorCapture ==
    /\ (last_available_uprating_factor # None) <=> (Computed2035 /\ Recorded(2035))
    /\ ~Computed2035 =>
          \A y \in SeriesYears :
              y > 2035 => /\ Factor(y) = Zero
                          /\ Label(y) = "No projection data"
                          /\ Raw(y) = Raw(2035)

C9_Witness ==
    /\ pc = "done"
    /\ start_year = 2035
    /\ HasResolved(2034) /\ HasResolved(2035)
    /\ Resolved(2034)[1] # Resolved(2035)[1]
    /\ value # Zero
    /\ Label(2055) = "No projection data"

-----------------------------------------------------------------------------
(***************************************************************************)
(* Properties of the resolver (SpecResolver).                              *)
(***************************************************************************)
MonthsWithData == {inst[2] : inst \in DOMAIN call.parameter}
Latest(months) == CHOOSE m \in months : \A n \in months : n <= m
Earliest(months) == CHOOSE m \in months : \A n \in months : m <= n
TwoDigitString ==
    <<"01", "02", "03", "04", "05", "06", "07", "08", "09", "10", "11", "12">>
Picked(month) == <<MonthValue(month), TwoDigitString[month]>>

(* C6: get_best_value_for_year returns (None, None) when no month of the   *)
(* year has a value; otherwise, for a year up to 2024, the value of the    *)
(* latest month with data and, for a year from 2025 on, the value of the   *)
(* earliest month with data, with that month's two-digit string.           *)
C6_ResolverMonthSelection ==
    returned # <<>> =>
        returned[1] =
            IF MonthsWithData = {} THEN <<None, None>>
            ELSE IF call.year <= 2024 THEN Picked(Latest(MonthsWithData))
            ELSE Picked(Earliest(MonthsWithData))

(* 2024 with data in months 3 and 9 gives the month-9 value and "09" *)
C6_Witness ==
    /\ returned # <<>>
    /\ call.year = 2024
    /\ MonthsWithData = {3, 9}
    /\ returned[1] = <<MonthValue(9), "09">>

-----------------------------------------------------------------------------
(***************************************************************************)
(* Properties of round_value (SpecRounding).                               *)
(***************************************************************************)
(* C7: for every value, every base above 0 and each of the three methods,  *)
(* rounding the rounded value again gives the rounded value.               *)
C7_RoundingIdempotence ==
    (Len(returned) = 2 /\ call.rounding_base # FZero) => returned[2] = returned[1]

(* 0.3 rounded upwards to base 0.1 is 0.30000000000000004, and that        *)
(* rounded upwards to base 0.1 is 0.4                                      *)
C7_SecondRoundingMoves ==
    /\ Len(returned) = 2
    /\ call = [value |-> FromRatio(30, 100), rounding_base |-> FromRatio(1, 10),
               rounding_method |-> "upwards"]
    /\ returned[1] # FromRatio(3, 10)
    /\ returned[2] = FromRatio(4, 10)

-----------------------------------------------------------------------------
(***************************************************************************)
(* Properties of two runs (SpecPair).                                      *)
(***************************************************************************)
Finished(s) == Len(s.uprated_values) = projection_years + 1

(* C10: two runs with the same initial value and start year, whose         *)
(* parameters agree on every year from the start year on and differ in the *)
(* year before it, show the same raw values, factors, labels and warnings. *)
C10_IndependenceFromYearBefore ==
    (pc = "done" /\ second_run # None /\ Finished(second_run)) =>
        Outputs(second_run) = Outputs(Locals)

C10_Witness ==
    /\ pc = "done"
    /\ second_run # None
    /\ Finished(second_run)
    /\ second_run.year_values # year_values
    /\ start_year - 1 \in DOMAIN year_values
    /\ start_year \in DOMAIN year_values
    /\ Outputs(second_run) = Outputs(Locals)

====
